---- MODULE Spec2Model ----
(***************************************************************************)
(* A model of the JobAI backend's resume and application pipeline:         *)
(*   - Resume.calculateJobMatch            (models/Resume.js)              *)
(*   - AIService.analyzeResume and helpers (models/Application.js)         *)
(*   - the upload / reprocess routes and processResumeAsync                *)
(*                                          (routes/resumes.js)            *)
(*   - the applications: apply, status, withdraw and interview routes      *)
(*                               (routes/jobs.js, models/Application.js)   *)
(* Strings are sequences of one-character strings, so that toLowerCase,    *)
(* includes, split and the regular expressions are computed, not assumed.  *)
(***************************************************************************)
EXTENDS Integers, Sequences, FiniteSets, TLC

VARIABLES
    \* ---- Match Scorer call (Resume.calculateJobMatch) ----
    mResume,      \* the resume document the method is called on
    mJob,         \* the job argument
    mResult,      \* <<the returned MatchResult>>, <<>> before the call
    \* ---- AI Analysis Client call (AIService.analyzeResume) ----
    aApiKey,      \* this.apiKey is configured
    aText,        \* resumeText argument
    aCall,        \* what the call did: [outcome, requests, raised, result]
    \* ---- resume store, background tasks and HTTP requests ----
    resumes,      \* the Resume collection: id -> document
    tasks,        \* processResumeAsync invocations in flight
    reqs,         \* reprocess requests between load and handler
    files,        \* uploaded files present on disk
    nReq,         \* HTTP requests received so far
    \* ---- a single call of a function of the program ----
    pIn,          \* the arguments
    pOut,         \* what the call returned or threw
    \* ---- applications, jobs and apply requests ----
    applications, \* the Application collection
    jobs,         \* the Job collection: id -> document
    applyReqs,    \* apply requests between two awaits of the handler
    nOps          \* requests and operations on applications so far

vars == <<mResume, mJob, mResult, aApiKey, aText, aCall,
          resumes, tasks, reqs, files, nReq, pIn, pOut,
          applications, jobs, applyReqs, nOps>>

matchVars == <<mResume, mJob, mResult>>
aiVars == <<aApiKey, aText, aCall>>
storeVars == <<resumes, tasks, reqs, files, nReq>>
pureVars == <<pIn, pOut>>
appVars == <<applications, jobs, applyReqs, nOps>>

-----------------------------------------------------------------------------
(* Strings *)

UpperChars == <<"A","B","C","D","E","F","G","H","I","J","K","L","M",
                "N","O","P","Q","R","S","T","U","V","W","X","Y","Z">>
LowerChars == <<"a","b","c","d","e","f","g","h","i","j","k","l","m",
                "n","o","p","q","r","s","t","u","v","w","x","y","z">>

\* String.prototype.toLowerCase on one character
LowerChar(c) ==
    IF \E i \in 1..Len(UpperChars) : UpperChars[i] = c
    THEN LowerChars[CHOOSE i \in 1..Len(UpperChars) : UpperChars[i] = c]
    ELSE c

\* String.prototype.toLowerCase
ToLowerCase(s) == [i \in 1..Len(s) |-> LowerChar(s[i])]

\* String.prototype.includes: t occurs in s as a contiguous substring
Includes(s, t) ==
    \E i \in 0..(Len(s) - Len(t)) : SubSeq(s, i + 1, i + Len(t)) = t

\* names.map(name => name.toLowerCase())
LowerNames(names) == [i \in 1..Len(names) |-> ToLowerCase(names[i])]

\* the elements of a sequence (Array.prototype.some is \E over them)
Elems(xs) == {xs[i] : i \in 1..Len(xs)}

\* the positions 1..n that lie in K, in increasing order
Positions(n, K) == SelectSeq([i \in 1..n |-> i], LAMBDA i : i \in K)

\* the elements of s at the positions K, in order
KeepAt(s, K) ==
    LET kept == Positions(Len(s), K)
    IN  [k \in 1..Len(kept) |-> s[kept[k]]]

\* the pieces of s between the separator positions seps: piece k lies between
\* the (k-1)-th and the k-th separator
PiecesBetween(s, seps) ==
    LET at == Positions(Len(s), seps)
    IN  [k \in 1..(Len(at) + 1) |->
            SubSeq(s, (IF k = 1 THEN 0 ELSE at[k - 1]) + 1,
                      (IF k = Len(at) + 1 THEN Len(s) + 1 ELSE at[k]) - 1)]

\* all sequences over S of length at most n
SeqsUpTo(S, n) == UNION {[1..k -> S] : k \in 0..n}

\* the sequences of SeqsUpTo(S, n) that name no element twice
ListsUpTo(S, n) ==
    {xs \in SeqsUpTo(S, n) : \A i, j \in 1..Len(xs) : xs[i] = xs[j] => i = j}

\* the sublists of xs (order kept) of length at most n
SubListsUpTo(xs, n) ==
    {SelectSeq(xs, LAMBDA x : x \in S) :
        S \in {T \in SUBSET {xs[i] : i \in 1..Len(xs)} : Cardinality(T) <= n}}

\* an optional value: <<>> is absent, <<v>> is present
Absent == <<>>
Present(v) == <<v>>

-----------------------------------------------------------------------------
(* Match Scorer: resumeSchema.methods.calculateJobMatch *)

MaxResumeSkills == 3
MaxJobSkills == 2

Str_javascript == <<"j","a","v","a","s","c","r","i","p","t">>
Str_react == <<"r","e","a","c","t">>
Str_nodejs == <<"n","o","d","e",".","j","s">>
Str_aws == <<"a","w","s">>
Str_python == <<"p","y","t","h","o","n">>
Str_Java == <<"J","a","v","a">>
Str_ReactNode == <<"R","e","a","c","t","/","N","o","d","e",".","j","s">>

\* analysis.skills[].name of the resumes considered, in the order in which
\* extractSkills emits them (the order of its keyword table)
ResumeSkillNames == <<Str_javascript, Str_react, Str_nodejs, Str_aws>>
\* job.skills[].name of the jobs considered
JobSkillNames == {Str_javascript, Str_python, Str_aws, Str_Java, Str_ReactNode}

\* job.level (enum of the Job schema)
Levels == {"entry", "junior", "mid", "senior", "lead", "executive"}

\* analysis.experience.length; the largest threshold of the table is 10
ExperienceCounts == 0..10

\* containment tested in one direction only
SkillsMatch_OneWay(a, b) == Includes(a, b)

\* bidirectional containment of lines 180 and 186
SkillsMatch(a, b) == Includes(a, b) \/ Includes(b, a)

\* the table with strict comparisons
LevelAdjustment_Strict(jobLevel, experienceYears) ==
    CASE jobLevel = "entry"     -> IF experienceYears > 0 THEN 10 ELSE -10
      [] jobLevel = "junior"    -> IF experienceYears > 1 THEN 10 ELSE -5
      [] jobLevel = "mid"       -> IF experienceYears > 3 THEN 10 ELSE -5
      [] jobLevel = "senior"    -> IF experienceYears > 5 THEN 10 ELSE -10
      [] jobLevel = "lead"      -> IF experienceYears > 7 THEN 10 ELSE -15
      [] jobLevel = "executive" -> IF experienceYears > 10 THEN 10 ELSE -20
      [] OTHER -> 0

\* the levelAdjustment table, indexed by job.level, and the `|| 0`
LevelAdjustment(jobLevel, experienceYears) ==
    CASE jobLevel = "entry"     -> IF experienceYears >= 0 THEN 10 ELSE -10
      [] jobLevel = "junior"    -> IF experienceYears >= 1 THEN 10 ELSE -5
      [] jobLevel = "mid"       -> IF experienceYears >= 3 THEN 10 ELSE -5
      [] jobLevel = "senior"    -> IF experienceYears >= 5 THEN 10 ELSE -10
      [] jobLevel = "lead"      -> IF experienceYears >= 7 THEN 10 ELSE -15
      [] jobLevel = "executive" -> IF experienceYears >= 10 THEN 10 ELSE -20
      [] OTHER -> 0

\* rounding with the Math.max / Math.min line left out
ClampRound_NoClamp(num, den) == (2 * num + den) \div (2 * den)

\* Math.round(Math.max(0, Math.min(100, num / den))) for den > 0, computed on
\* the exact quotient (Math.round rounds halves up)
ClampRound(num, den) ==
    IF num > 100 * den THEN 100
    ELSE IF num < 0 THEN 0
    ELSE (2 * num + den) \div (2 * den)

\* matchScore of lines 191-215: base = matched / jobSkills * 100 (0 when the
\* job lists no skills), plus the level adjustment, clamped, rounded
MatchScore(nMatched, nJobSkills, adjustment) ==
    IF nJobSkills > 0
    THEN ClampRound(100 * nMatched + adjustment * nJobSkills, nJobSkills)
    ELSE ClampRound(adjustment, 1)

calculateJobMatch(resume, job) ==
    LET resumeSkills == LowerNames(resume.skills)
        jobSkills == LowerNames(job.skills)
        matchedSkills ==
            SelectSeq(resumeSkills,
                      LAMBDA skill : \E jobSkill \in Elems(jobSkills) :
                          SkillsMatch(jobSkill, skill))
        missingSkills ==
            SelectSeq(jobSkills,
                      LAMBDA skill : ~\E resumeSkill \in Elems(resumeSkills) :
                          SkillsMatch(resumeSkill, skill))
        experienceYears == resume.experience
    IN  [matchScore |-> MatchScore(Len(matchedSkills), Len(jobSkills),
                                   LevelAdjustment(job.level, experienceYears)),
         matchedSkills |-> matchedSkills,
         missingSkills |-> missingSkills]

\* the parts of the state a specification does not use
PureIdle == pIn = Absent /\ pOut = Absent
AppIdle == applications = {} /\ jobs = <<>> /\ applyReqs = {} /\ nOps = 0
AiIdle == aApiKey = FALSE /\ aText = <<>> /\ aCall = Absent
StoreIdle == /\ resumes = <<>> /\ tasks = {} /\ reqs = {} /\ files = {}
             /\ nReq = 0

\* a stored resume (skills and number of experience entries) and a job
InitMatch ==
    /\ mResume \in [skills : SubListsUpTo(ResumeSkillNames, MaxResumeSkills),
                    experience : ExperienceCounts]
    /\ mJob \in [skills : ListsUpTo(JobSkillNames, MaxJobSkills),
                 level : Levels]
    /\ mResult = Absent
    /\ AiIdle /\ StoreIdle /\ PureIdle /\ AppIdle

\* resume.calculateJobMatch(job)
CallCalculateJobMatch ==
    /\ mResult = Absent
    /\ mResult' = Present(calculateJobMatch(mResume, mJob))
    /\ UNCHANGED <<mResume, mJob, aiVars, storeVars, pureVars, appVars>>

NextMatch == CallCalculateJobMatch

SpecMatch == InitMatch /\ [][NextMatch]_vars

-----------------------------------------------------------------------------
(* AI Analysis Client: class AIService *)

MaxResponseLen == 4

\* the result of a call that may throw: the value returned, or the error
Return(v) == [threw |-> FALSE, value |-> v]
Throw(e) == [threw |-> TRUE, value |-> e]

\* a number, or NaN
Num(n) == <<"num", n>>
NaN == <<"nan", 0>>

Str_sql == <<"s","q","l">>
Str_docker == <<"d","o","c","k","e","r">>
Str_git == <<"g","i","t">>

\* resume texts handed to analyzeResume
Txt_empty == <<>>
Txt_cooking == <<"C","o","o","k","i","n","g">>
Txt_pythonAws == <<"P","y","t","h","o","n",","," ","A","W","S">>
Txt_nodeDocker == <<" ","n","o","d","e",".","j","s"," ","d","o","c","k","e","r">>
Txt_nodejsGit == <<"n","o","d","e","j","s"," "," ","g","i","t"," ">>
AiTexts == {Txt_empty, Txt_cooking, Txt_pythonAws, Txt_nodeDocker, Txt_nodejsGit}

\* the file name argument
AiFileName == "resume.pdf"

\* Date.now() at the moments a call may return
Clock == {1, 2}

\* The text of choices[0].message.content, as a sequence of lexical pieces:
\*   "{" and "}"  braces
\*   "w"  prose without braces
\*   "m"  the members "summary": ..., "skills": [...], "overallScore": 90
\*   "v"  the member "content": 60
\*   "k"  the key "scores": , which needs an object after it
Pieces == {"{", "}", "w", "m", "k", "v"}

\* the answer the prompt asks for, and answers with text around the object
SampleResponses ==
    { <<"{", "m", "k", "{", "v", "}", "}">>,
      <<"w", "{", "m", "k", "{", "v", "}", "}", "w">>,
      <<"{", "m", "}", "w", "{", "m", "}">>,
      <<"{", "m", "}", "w", "}">> }

Responses == SeqsUpTo(Pieces, MaxResponseLen) \cup SampleResponses

\* what the members "m" carry
AiSummary == "Backend engineer"
AiSkills == <<Str_docker>>
AiOverallScore == 90
\* the value of the member "v"
AiSubScore == 60

\* the outcomes of axios.post and of reading choices[0].message.content
RequestOutcomes ==
    {[kind |-> "error", text |-> <<>>], [kind |-> "timeout", text |-> <<>>],
     [kind |-> "noChoices", text |-> <<>>]}
    \cup {[kind |-> "response", text |-> t] : t \in Responses}

\* callOpenAI: throws without an API key (no request is issued), throws when
\* the request fails, times out or the body has no choices[0].message
callOpenAI(apiKey, outcome) ==
    IF ~apiKey THEN Throw("OpenAI API key not configured")
    ELSE IF outcome.kind = "response" THEN Return(outcome.text)
    ELSE Throw(outcome.kind)

\* callOpenAI with the API key test after the request
RequestsIssued_Always(apiKey) == 1

\* callOpenAI that repeats a request once
RequestsIssued_Retry(apiKey) == IF apiKey THEN 2 ELSE 0

\* the number of axios.post calls callOpenAI makes
RequestsIssued(apiKey) == IF apiKey THEN 1 ELSE 0

\* response.match(/\{[\s\S]*\}/): greedy, from the first "{" to the last "}"
\* after it; Absent when there is none (match returns null)
MatchBraces(response) ==
    LET opens == {i \in 1..Len(response) : response[i] = "{"}
        first == CHOOSE i \in opens : \A j \in opens : i <= j
        closes == {i \in 1..Len(response) : response[i] = "}" /\ i > first}
        last == CHOOSE i \in closes : \A j \in closes : j <= i
    IN  IF opens = {} THEN Absent
        ELSE IF closes = {} THEN Absent
        ELSE Present(SubSeq(response, first, last))

\* a parsed JSON object: which members it has; k holds the object after "k"
EmptyObject == [m |-> FALSE, v |-> FALSE, k |-> Absent]
ParseFail == [ok |-> FALSE, next |-> 0, value |-> EmptyObject]

RECURSIVE ParseObject(_, _)
RECURSIVE ParseMembers(_, _, _)

\* an object starts at ts[i]: "{" members "}"
ParseObject(ts, i) ==
    IF i > Len(ts) THEN ParseFail
    ELSE IF ts[i] # "{" THEN ParseFail
    ELSE ParseMembers(ts, i + 1, EmptyObject)

\* the members of an object from ts[i] on, up to its closing brace
ParseMembers(ts, i, obj) ==
    IF i > Len(ts) THEN ParseFail
    ELSE CASE ts[i] = "}" -> [ok |-> TRUE, next |-> i + 1, value |-> obj]
           [] ts[i] = "m" -> ParseMembers(ts, i + 1, [obj EXCEPT !.m = TRUE])
           [] ts[i] = "v" -> ParseMembers(ts, i + 1, [obj EXCEPT !.v = TRUE])
           [] ts[i] = "k" ->
                LET sub == ParseObject(ts, i + 1)
                IN  IF sub.ok
                    THEN ParseMembers(ts, sub.next,
                                      [obj EXCEPT !.k = Present(sub.value)])
                    ELSE ParseFail
           [] OTHER -> ParseFail

\* JSON.parse: the object the whole text denotes, or a SyntaxError
JsonParse(ts) ==
    LET r == ParseObject(ts, 1)
    IN  IF r.ok /\ r.next = Len(ts) + 1 THEN Return(r.value)
        ELSE Throw("SyntaxError")

\* whitespace for /\s+/
IsSpace(c) == c \in {" ", "\t", "\n", "\r"}

\* String.prototype.split(/\s+/): the pieces between the runs of whitespace,
\* an empty piece before a leading run and after a trailing one. Each run is
\* first reduced to its first character, which then separates
SplitSpaces(s) ==
    LET runStart == {i \in 1..Len(s) :
                        IsSpace(s[i]) /\ (i = 1 \/ ~IsSpace(s[i - 1]))}
        t == KeepAt(s, {i \in 1..Len(s) : ~IsSpace(s[i]) \/ i \in runStart})
    IN  PiecesBetween(t, {i \in 1..Len(t) : IsSpace(t[i])})

\* String.prototype.replace('.', ''): the first "." removed
RemoveFirstDot(s) ==
    LET dots == {i \in 1..Len(s) : s[i] = "."}
        d == CHOOSE i \in dots : \A j \in dots : i <= j
    IN  IF dots = {} THEN s ELSE SubSeq(s, 1, d - 1) \o SubSeq(s, d + 1, Len(s))

\* skillKeywords of getFallbackResumeAnalysis
FallbackSkillKeywords ==
    <<Str_javascript, Str_python, Str_react, Str_nodejs,
      Str_sql, Str_aws, Str_docker, Str_git>>

\* the default scores of the fallback, in the order of the source
FallbackScores == <<75, 80, 85, 75, 70, 65>>
FallbackOverallScore == 75
DefaultOverallScore == 75

\* getFallbackResumeAnalysis(resumeText = '', fileName = '')
getFallbackResumeAnalysis(resumeText, fileName, now) ==
    LET words == SplitSpaces(ToLowerCase(resumeText))
        foundSkills ==
            SelectSeq(FallbackSkillKeywords,
                      LAMBDA skill : \E word \in Elems(words) :
                          Includes(word, RemoveFirstDot(skill)))
    IN  [summary |-> Present("Professional with diverse experience and technical skills."),
         skills |-> Present(foundSkills),
         experience |-> Present(<<"Software Developer">>),
         education |-> Present(<<"Bachelor's Degree">>),
         scores |-> Present([numeric |-> TRUE, values |-> FallbackScores]),
         overallScore |-> Num(FallbackOverallScore),
         fileName |-> fileName,
         processingTime |-> now]

\* the analysis object that JSON.parse gives for a parsed response
AnalysisOfObject(obj, now) ==
    [summary |-> IF obj.m THEN Present(AiSummary) ELSE Absent,
     skills |-> IF obj.m THEN Present(AiSkills) ELSE Absent,
     experience |-> Absent,
     education |-> Absent,
     scores |-> IF obj.k = Absent THEN Absent
                ELSE LET sc == obj.k[1]
                     IN  Present([numeric |-> ~sc.m /\ sc.k = Absent,
                                  values |-> IF sc.v THEN <<AiSubScore>> ELSE <<>>]),
     overallScore |-> IF obj.m THEN Num(AiOverallScore) ELSE NaN,
     fileName |-> "",
     processingTime |-> now]

\* the call getFallbackResumeAnalysis() of line 424, without arguments
parseResumeAnalysis_Fallback(now) == getFallbackResumeAnalysis(<<>>, "", now)

\* parseResumeAnalysis: the parsed object, or the fallback when the response
\* holds no "{...}" or JSON.parse throws
parseResumeAnalysis(response, now) ==
    LET jsonMatch == MatchBraces(response)
    IN  IF jsonMatch = Absent THEN parseResumeAnalysis_Fallback(now)
        ELSE LET parsed == JsonParse(jsonMatch[1])
             IN  IF parsed.threw THEN parseResumeAnalysis_Fallback(now)
                 ELSE AnalysisOfObject(parsed.value, now)

\* the sum of a sequence of numbers
RECURSIVE SumSeq(_)
SumSeq(xs) == IF xs = <<>> THEN 0 ELSE Head(xs) + SumSeq(Tail(xs))

\* Math.round(x / n) for x >= 0, n > 0
RoundDiv(x, n) == (2 * x + n) \div (2 * n)

\* calculateOverallScore: the rounded mean of Object.values(analysis.scores),
\* NaN when a value is not a number or there is none, 75 without scores.
\* scores.values are the numeric values, scores.numeric tells that the
\* object holds no other value
calculateOverallScore(analysis) ==
    IF analysis.scores # Absent
    THEN LET scores == analysis.scores[1]
         IN  IF ~scores.numeric \/ scores.values = <<>> THEN NaN
             ELSE Num(RoundDiv(SumSeq(scores.values), Len(scores.values)))
    ELSE Num(DefaultOverallScore)

\* analyzeResume without its catch block
analyzeResume_NoCatch(resumeText, fileName, apiKey, outcome, now) ==
    LET response == callOpenAI(apiKey, outcome)
    IN  IF response.threw THEN response
        ELSE LET analysis == parseResumeAnalysis(response.value, now)
             IN  Return([analysis EXCEPT
                            !.overallScore = calculateOverallScore(analysis),
                            !.fileName = fileName,
                            !.processingTime = now])

\* analyzeResume(resumeText, fileName)
analyzeResume(resumeText, fileName, apiKey, outcome, now) ==
    LET response == callOpenAI(apiKey, outcome)
    IN  IF response.threw
        THEN Return(getFallbackResumeAnalysis(resumeText, fileName, now))
        ELSE LET analysis == parseResumeAnalysis(response.value, now)
             IN  Return([analysis EXCEPT
                            !.overallScore = calculateOverallScore(analysis),
                            !.fileName = fileName,
                            !.processingTime = now])

MatchIdle == mResume = Absent /\ mJob = Absent /\ mResult = Absent

\* the process configuration (OPENAI_API_KEY set or not) and a resume text
InitAI ==
    /\ aApiKey \in BOOLEAN
    /\ aText \in AiTexts
    /\ aCall = Absent
    /\ MatchIdle /\ StoreIdle /\ PureIdle /\ AppIdle

\* aiService.analyzeResume(aText, AiFileName), for each outcome of the request
CallAnalyzeResume ==
    /\ aCall = Absent
    /\ \E outcome \in RequestOutcomes, now \in Clock :
          aCall' = Present([outcome |-> IF aApiKey THEN outcome
                                        ELSE [kind |-> "noKey", text |-> <<>>],
                            requests |-> RequestsIssued(aApiKey),
                            call |-> analyzeResume(aText, AiFileName, aApiKey,
                                                   outcome, now)])
    /\ UNCHANGED <<aApiKey, aText, matchVars, storeVars, pureVars, appVars>>

NextAI == CallAnalyzeResume

SpecAI == InitAI /\ [][NextAI]_vars

-----------------------------------------------------------------------------
(* Text Extractor and Heuristic Field Extractor: class ResumeProcessor *)

\* .replace(/\r\n/g, '\n'): the "\r" of each "\r\n" goes
ReplaceCRLF(s) ==
    KeepAt(s, {i \in 1..Len(s) : ~(s[i] = "\r" /\ i < Len(s) /\ s[i + 1] = "\n")})

\* cleanText without its second replace
ReplaceCR_Skipped(s) == s

\* .replace(/\r/g, '\n')
ReplaceCR(s) == [i \in 1..Len(s) |-> IF s[i] = "\r" THEN "\n" ELSE s[i]]

\* .replace(/\n{3,}/g, '\n\n'): of a run of three or more "\n" the first two
\* stay
CollapseNewlines(s) ==
    KeepAt(s, {i \in 1..Len(s) :
                  ~(s[i] = "\n" /\ i >= 3 /\ s[i - 1] = "\n" /\ s[i - 2] = "\n")})

\* the characters \s matches, among those of the texts considered
SpaceChars == {" ", "\t", "\n", "\r"}

\* .replace(/\s{2}/g, ' '): each pair of whitespace characters becomes one
\* space, so a run of three leaves two
CollapseSpaces_Pairs(s) ==
    LET first == {i \in 1..Len(s) :
                     s[i] \in {" ", "\t", "\n", "\r"}
                         /\ (i = 1 \/ s[i - 1] \notin {" ", "\t", "\n", "\r"})}
        Start(i) == CHOOSE f \in first : f <= i /\ \A g \in first : g <= i => g <= f
        even == {i \in 1..Len(s) :
                    s[i] \in {" ", "\t", "\n", "\r"} /\ (i - Start(i)) % 2 = 0}
        paired == {i \in even : i < Len(s) /\ s[i + 1] \in {" ", "\t", "\n", "\r"}}
        t == [i \in 1..Len(s) |-> IF i \in paired THEN " " ELSE s[i]]
    IN  KeepAt(t, {i \in 1..Len(s) :
                      s[i] \notin {" ", "\t", "\n", "\r"} \/ i \in even})

\* .replace(/\s{2,}/g, ' '): a run of two or more whitespace characters
\* becomes one space, a single whitespace character stays
CollapseSpaces(s) ==
    LET first == {i \in 1..Len(s) :
                     s[i] \in SpaceChars /\ (i = 1 \/ s[i - 1] \notin SpaceChars)}
        long == {i \in first : i < Len(s) /\ s[i + 1] \in SpaceChars}
        t == [i \in 1..Len(s) |-> IF i \in long THEN " " ELSE s[i]]
    IN  KeepAt(t, {i \in 1..Len(s) : s[i] \notin SpaceChars \/ i \in first})

\* String.prototype.trim
Trim(s) ==
    LET solid == {i \in 1..Len(s) : s[i] \notin SpaceChars}
    IN  IF solid = {} THEN <<>>
        ELSE SubSeq(s, CHOOSE i \in solid : \A j \in solid : i <= j,
                       CHOOSE i \in solid : \A j \in solid : j <= i)

\* cleanText
cleanText(text) ==
    Trim(CollapseSpaces(CollapseNewlines(ReplaceCR(ReplaceCRLF(text)))))

\* the uploaded files considered: what the upload middleware hands over
\* (originalname, mimetype), whether fs.readFile and the parsing library
\* succeed on it, and the raw text the library gives
Raw_cpp ==
    <<"J","a","n","e"," ","D","o","e","\r","\n","S","e","n","i","o","r"," ",
      "C","+","+"," ","d","e","v","e","l","o","p","e","r",","," ","A","c",
      "m","e"," ","I","n","c","\r","\n","2","0","1","5"," ","-"," ","2","0",
      "2","0","\r","\n","\r","\n","\r","\n","E","x","p","e","r","t"," ","C",
      "+","+"," ","a","n","d"," ","P","y","t","h","o","n","."," "," ","G",
      "i","t"," ","d","a","i","l","y",".","\r","\n","B","a","c","h","e","l",
      "o","r"," ","o","f"," ","S","c","i","e","n","c","e",","," ","S","t",
      "a","t","e"," ","U","n","i","v","e","r","s","i","t","y"," ","2","0",
      "1","2","\r","\n">>
Raw_py ==
    <<"J","o","h","n"," ","R","o","e","\n","P","y","t","h","o","n"," ","e",
      "n","g","i","n","e","e","r","\n","\n","\n","\n","P","y","t","h","o",
      "n",","," ","R","e","a","c","t"," ","a","n","d"," ","A","W","S"," ",
      "f","o","r"," ","y","e","a","r","s",".","\t","P","y","t","h","o","n",
      " ","e","x","p","e","r","i","e","n","c","e"," ","w","i","t","h"," ",
      "n","o","d","e","j","s","\n","M","a","s","t","e","r"," ","o","f"," ",
      "S","c","i","e","n","c","e",","," ","T","e","c","h"," ","I","n","s",
      "t","i","t","u","t","e","\n">>
Raw_plain ==
    <<"I"," ","b","a","k","e"," ","b","u","n","s"," ","a","n","d"," ","c",
      "o","o","k"," ","f","a","m","i","l","y"," ","m","e","a","l","s"," ",
      "d","a","i","l","y","."," ","I"," ","b","a","k","e"," ","b","u","n",
      "s"," ","a","n","d"," ","c","o","o","k"," ","f","a","m","i","l","y",
      " ","m","e","a","l","s"," ","d","a","i","l","y","."," ","I"," ","b",
      "a","k","e"," ","b","u","n","s"," ","a","n","d"," ","c","o","o","k",
      " ","f","a","m","i","l","y"," ","m","e","a","l","s"," ","d","a","i",
      "l","y","."," ">>
Raw_short ==
    <<" "," ","P","y","t","h","o","n"," ","d","e","v","e","l","o","p","e",
      "r"," ","\n">>

MimePdf == "application/pdf"
MimeDoc == "application/msword"
MimeDocx == "application/vnd.openxmlformats-officedocument.wordprocessingml.document"

UploadFiles ==
    { [originalname |-> "cpp.pdf", mimetype |-> MimePdf, parses |-> TRUE],
      [originalname |-> "py.docx", mimetype |-> MimeDocx, parses |-> TRUE],
      [originalname |-> "plain.doc", mimetype |-> MimeDoc, parses |-> TRUE],
      [originalname |-> "short.pdf", mimetype |-> MimePdf, parses |-> TRUE],
      [originalname |-> "corrupt.pdf", mimetype |-> MimePdf, parses |-> FALSE],
      [originalname |-> "photo.png", mimetype |-> "image/png", parses |-> TRUE] }

\* data.text of pdfParse, result.value of mammoth.extractRawText
RawTextOf(originalname) ==
    CASE originalname = "cpp.pdf" -> Raw_cpp
      [] originalname = "py.docx" -> Raw_py
      [] originalname = "plain.doc" -> Raw_plain
      [] originalname = "short.pdf" -> Raw_short
      [] OTHER -> <<>>

\* extractFromPDF / extractFromWord
extractFromLibrary(file) ==
    IF file.parses THEN Return(cleanText(RawTextOf(file.originalname)))
    ELSE Throw("Failed to extract text from document")

\* extractText: every error becomes 'Failed to extract text from resume'
extractText(file) ==
    LET r == IF file.mimetype \in {MimePdf, MimeDoc, MimeDocx}
             THEN extractFromLibrary(file)
             ELSE Throw("Unsupported file type")
    IN  IF r.threw THEN Throw("Failed to extract text from resume") ELSE r

\* extractText for each file, computed once
ExtractedTexts == [f \in UploadFiles |-> extractText(f)]

\* skillKeywords of extractSkills
SkillKeywords ==
    << <<"j","a","v","a","s","c","r","i","p","t">>,
       <<"p","y","t","h","o","n">>,
       <<"j","a","v","a">>,
       <<"c","+","+">>,
       <<"c","#">>,
       <<"p","h","p">>,
       <<"r","u","b","y">>,
       <<"g","o">>,
       <<"r","u","s","t">>,
       <<"s","w","i","f","t">>,
       <<"k","o","t","l","i","n">>,
       <<"s","c","a","l","a">>,
       <<"r">>,
       <<"m","a","t","l","a","b">>,
       <<"p","e","r","l">>,
       <<"s","h","e","l","l">>,
       <<"b","a","s","h">>,
       <<"p","o","w","e","r","s","h","e","l","l">>,
       <<"h","t","m","l">>,
       <<"c","s","s">>,
       <<"r","e","a","c","t">>,
       <<"a","n","g","u","l","a","r">>,
       <<"v","u","e">>,
       <<"n","o","d","e",".","j","s">>,
       <<"e","x","p","r","e","s","s">>,
       <<"d","j","a","n","g","o">>,
       <<"f","l","a","s","k">>,
       <<"s","p","r","i","n","g">>,
       <<"l","a","r","a","v","e","l">>,
       <<"r","a","i","l","s">>,
       <<"a","s","p",".","n","e","t">>,
       <<"j","q","u","e","r","y">>,
       <<"b","o","o","t","s","t","r","a","p">>,
       <<"s","a","s","s">>,
       <<"l","e","s","s">>,
       <<"m","y","s","q","l">>,
       <<"p","o","s","t","g","r","e","s","q","l">>,
       <<"m","o","n","g","o","d","b">>,
       <<"r","e","d","i","s">>,
       <<"e","l","a","s","t","i","c","s","e","a","r","c","h">>,
       <<"o","r","a","c","l","e">>,
       <<"s","q","l","i","t","e">>,
       <<"c","a","s","s","a","n","d","r","a">>,
       <<"d","y","n","a","m","o","d","b">>,
       <<"f","i","r","e","b","a","s","e">>,
       <<"a","w","s">>,
       <<"a","z","u","r","e">>,
       <<"g","c","p">>,
       <<"d","o","c","k","e","r">>,
       <<"k","u","b","e","r","n","e","t","e","s">>,
       <<"j","e","n","k","i","n","s">>,
       <<"g","i","t","l","a","b">>,
       <<"g","i","t","h","u","b">>,
       <<"t","e","r","r","a","f","o","r","m">>,
       <<"a","n","s","i","b","l","e">>,
       <<"c","h","e","f">>,
       <<"p","u","p","p","e","t">>,
       <<"v","a","g","r","a","n","t">>,
       <<"g","i","t">>,
       <<"s","v","n">>,
       <<"j","i","r","a">>,
       <<"c","o","n","f","l","u","e","n","c","e">>,
       <<"s","l","a","c","k">>,
       <<"t","r","e","l","l","o">>,
       <<"a","s","a","n","a">>,
       <<"f","i","g","m","a">>,
       <<"s","k","e","t","c","h">>,
       <<"p","h","o","t","o","s","h","o","p">>,
       <<"i","l","l","u","s","t","r","a","t","o","r">>,
       <<"i","n","d","e","s","i","g","n">>,
       <<"l","e","a","d","e","r","s","h","i","p">>,
       <<"m","a","n","a","g","e","m","e","n","t">>,
       <<"c","o","m","m","u","n","i","c","a","t","i","o","n">>,
       <<"t","e","a","m","w","o","r","k">>,
       <<"p","r","o","b","l","e","m"," ","s","o","l","v","i","n","g">>,
       <<"a","n","a","l","y","t","i","c","a","l">>,
       <<"c","r","e","a","t","i","v","e">>,
       <<"o","r","g","a","n","i","z","e","d">>,
       <<"d","e","t","a","i","l"," ","o","r","i","e","n","t","e","d">>,
       <<"t","i","m","e"," ","m","a","n","a","g","e","m","e","n","t">>,
       <<"a","g","i","l","e">>,
       <<"s","c","r","u","m">>,
       <<"k","a","n","b","a","n">>,
       <<"w","a","t","e","r","f","a","l","l">>,
       <<"l","e","a","n">>,
       <<"s","i","x"," ","s","i","g","m","a">>,
       <<"d","e","v","o","p","s">>,
       <<"c","i","/","c","d">> >>

\* jobTitles of extractExperience
JobTitles ==
    << <<"d","e","v","e","l","o","p","e","r">>,
       <<"e","n","g","i","n","e","e","r">>,
       <<"m","a","n","a","g","e","r">>,
       <<"a","n","a","l","y","s","t">>,
       <<"c","o","n","s","u","l","t","a","n","t">>,
       <<"s","p","e","c","i","a","l","i","s","t">>,
       <<"c","o","o","r","d","i","n","a","t","o","r">>,
       <<"a","s","s","i","s","t","a","n","t">>,
       <<"d","i","r","e","c","t","o","r">>,
       <<"l","e","a","d">>,
       <<"s","e","n","i","o","r">>,
       <<"j","u","n","i","o","r">> >>

\* educationKeywords of extractEducation
EducationKeywords ==
    << <<"b","a","c","h","e","l","o","r">>,
       <<"m","a","s","t","e","r">>,
       <<"p","h","d">>,
       <<"d","o","c","t","o","r","a","t","e">>,
       <<"a","s","s","o","c","i","a","t","e">>,
       <<"d","i","p","l","o","m","a">>,
       <<"c","e","r","t","i","f","i","c","a","t","e">>,
       <<"u","n","i","v","e","r","s","i","t","y">>,
       <<"c","o","l","l","e","g","e">>,
       <<"i","n","s","t","i","t","u","t","e">>,
       <<"s","c","h","o","o","l">>,
       <<"d","e","g","r","e","e">> >>

\* contextWords of calculateSkillConfidence
ContextWords ==
    << <<"e","x","p","e","r","i","e","n","c","e">>,
       <<"p","r","o","f","i","c","i","e","n","t">>,
       <<"e","x","p","e","r","t">>,
       <<"a","d","v","a","n","c","e","d">>,
       <<"y","e","a","r","s">> >>

\* new RegExp(skill, 'gi') throws a SyntaxError when a quantifier has nothing
\* to repeat: at the start of the pattern or right after "+" or "*"
IsInvalidPattern(skill) ==
    \/ skill # <<>> /\ skill[1] \in {"+", "*", "?"}
    \/ \E i \in 1..(Len(skill) - 1) :
          skill[i] \in {"+", "*"} /\ skill[i + 1] \in {"+", "*"}

\* the pattern's character p matches the text's character c ("." is any
\* character but a line end; the other keyword characters stand for
\* themselves; the text is lowercase already)
PatternCharMatches(p, c) == IF p = "." THEN c \notin {"\n", "\r"} ELSE p = c

PatternMatchesAt(text, i, skill) ==
    /\ i + Len(skill) - 1 <= Len(text)
    /\ \A j \in 1..Len(skill) : PatternCharMatches(skill[j], text[i + j - 1])

\* (text.match(new RegExp(skill, 'gi')) || []).length from position i on:
\* matches are taken left to right and do not overlap
RECURSIVE CountMatches(_, _, _)
CountMatches(text, i, skill) ==
    LET at == {j \in i..Len(text) : PatternMatchesAt(text, j, skill)}
    IN  IF at = {} THEN 0
        ELSE 1 + CountMatches(text, (CHOOSE j \in at : \A k \in at : j <= k)
                                    + Len(skill), skill)

Min(a, b) == IF a <= b THEN a ELSE b

\* calculateSkillConfidence, in tenths: min(0.9, 0.3 + 0.1 n), plus 0.1 for
\* each context word next to the skill, capped at 1.0
calculateSkillConfidence(text, skill) ==
    IF IsInvalidPattern(skill) THEN Throw("Invalid regular expression: Nothing to repeat")
    ELSE LET skillOccurrences == CountMatches(text, 1, skill)
             near == {w \in 1..Len(ContextWords) :
                         \/ Includes(text, ContextWords[w] \o <<" ">> \o skill)
                         \/ Includes(text, skill \o <<" ">> \o ContextWords[w])}
         IN  Return(Min(10, Min(9, 3 + skillOccurrences) + Cardinality(near)))

\* extractSkills: the names of the keywords found, in table order; throws
\* when calculateSkillConfidence throws for one of them
extractSkills(text) ==
    LET textLower == ToLowerCase(text)
        foundSkills == SelectSeq(SkillKeywords, LAMBDA skill : Includes(textLower, skill))
        thrown == {i \in 1..Len(foundSkills) :
                      calculateSkillConfidence(textLower, foundSkills[i]).threw}
    IN  IF thrown # {}
        THEN calculateSkillConfidence(textLower,
                 foundSkills[CHOOSE i \in thrown : \A j \in thrown : i <= j])
        ELSE Return(foundSkills)

\* text.split('\n')
SplitLines(s) == PiecesBetween(s, {i \in 1..Len(s) : s[i] = "\n"})

\* the lines that hold one of the keywords (compared in lower case)
LinesWith(text, keywords) ==
    SelectSeq(SplitLines(text),
              LAMBDA line : \E k \in Elems(keywords) : Includes(ToLowerCase(line), k))

\* extractEducation: one entry for each line that holds an education keyword
extractEducation(text) == LinesWith(text, EducationKeywords)

\* extractExperience: one entry for each line that holds a job title; its
\* title is the line, trimmed
extractExperience(text) ==
    LET lines == LinesWith(text, JobTitles)
    IN  [i \in 1..Len(lines) |-> Trim(lines[i])]

\* extractBasicInfo
extractBasicInfo(text) ==
    LET skills == extractSkills(text)
    IN  IF skills.threw THEN skills
        ELSE Return([skills |-> skills.value,
                     education |-> extractEducation(text),
                     experience |-> extractExperience(text)])

-----------------------------------------------------------------------------
(* Single calls of extractText, cleanText and calculateSkillConfidence *)

\* the length of the raw texts handed to cleanText
MaxRawLen == 5
\* the number of words of the texts handed to calculateSkillConfidence
MaxWords == 4

\* MIME types a caller may pass to extractText
MimeTypes ==
    {MimePdf, MimeDoc, MimeDocx, "image/png", "text/plain", "text/html",
     "application/zip", ""}

\* the files handed to extractText
ExtractFiles ==
    [originalname : {"cpp.pdf", "py.docx", "plain.doc", "short.pdf"},
     mimetype : MimeTypes, parses : BOOLEAN]

NoFile == [originalname |-> "", mimetype |-> "", parses |-> FALSE]

\* the characters of the raw texts handed to cleanText
RawChars == {"a", " ", "\t", "\n", "\r"}

Str_cpp == <<"c","+","+">>
Str_nodexjs == <<"n","o","d","e","x","j","s">>
Str_expert == <<"e","x","p","e","r","t">>
Str_years == <<"y","e","a","r","s">>
Str_and == <<"a","n","d">>

\* the words of the (lowercased) texts handed to calculateSkillConfidence,
\* and the keywords asked for
ConfidenceWords ==
    {Str_python, Str_nodejs, Str_nodexjs, Str_cpp, Str_expert, Str_years, Str_and}
ConfidenceSkills == {Str_python, Str_nodejs, Str_cpp}

\* the words joined by single spaces
RECURSIVE JoinWords(_)
JoinWords(ws) ==
    IF ws = <<>> THEN <<>>
    ELSE IF Len(ws) = 1 THEN ws[1]
    ELSE ws[1] \o <<" ">> \o JoinWords(Tail(ws))

\* the calls considered; extractSkills calls calculateSkillConfidence(textLower,
\* skill) only when textLower.includes(skill)
ExtractorCalls ==
    {[op |-> "extractText", file |-> f, text |-> <<>>, skill |-> <<>>] :
        f \in ExtractFiles}
    \cup {[op |-> "cleanText", file |-> NoFile, text |-> t, skill |-> <<>>] :
            t \in SeqsUpTo(RawChars, MaxRawLen)}
    \cup {c \in {[op |-> "calculateSkillConfidence", file |-> NoFile,
                  text |-> JoinWords(ws), skill |-> k] :
                    ws \in SeqsUpTo(ConfidenceWords, MaxWords),
                    k \in ConfidenceSkills} :
            Includes(c.text, c.skill)}

InitExtractor ==
    /\ pIn \in ExtractorCalls
    /\ pOut = Absent
    /\ MatchIdle /\ AiIdle /\ StoreIdle /\ AppIdle

\* resumeProcessor.extractText(filePath, mimeType)
CallExtractText ==
    /\ pOut = Absent /\ pIn.op = "extractText"
    /\ pOut' = Present(extractText(pIn.file))
    /\ UNCHANGED <<pIn, matchVars, aiVars, storeVars, appVars>>

\* resumeProcessor.cleanText(text)
CallCleanText ==
    /\ pOut = Absent /\ pIn.op = "cleanText"
    /\ pOut' = Present(Return(cleanText(pIn.text)))
    /\ UNCHANGED <<pIn, matchVars, aiVars, storeVars, appVars>>

\* resumeProcessor.calculateSkillConfidence(textLower, skill)
CallCalculateSkillConfidence ==
    /\ pOut = Absent /\ pIn.op = "calculateSkillConfidence"
    /\ pOut' = Present(calculateSkillConfidence(pIn.text, pIn.skill))
    /\ UNCHANGED <<pIn, matchVars, aiVars, storeVars, appVars>>

NextExtractor == CallExtractText \/ CallCleanText \/ CallCalculateSkillConfidence

SpecExtractor == InitExtractor /\ [][NextExtractor]_vars

-----------------------------------------------------------------------------
(* Relevance reasons (Resume.generateRelevanceReasons) and the job-matching
   call of the AI client (AIService.matchResumeWithJob) *)

\* the number of matched skills handed to generateRelevanceReasons
MaxMatched == 4

Str_java == <<"j","a","v","a">>
Str_mysql == <<"m","y","s","q","l">>

\* techSkills of generateRelevanceReasons
TechSkills ==
    <<Str_javascript, Str_python, Str_react, Str_nodejs, Str_java, Str_sql>>

\* the reasons; the first carries matchedSkills.length
ReasonStrong(n) ==
    [text |-> "Strong skill alignment with N matching technical skills", n |-> n]
ReasonExperience ==
    [text |-> "Relevant experience level matches job requirements", n |-> 0]
ReasonSenior ==
    [text |-> "Senior-level qualifications align with position requirements", n |-> 0]
ReasonCore ==
    [text |-> "Core technology stack matches job requirements", n |-> 0]
ReasonGeneric ==
    [text |-> "General experience and skills are relevant to this position", n |-> 0]

\* matchedSkills.some(skill => techSkills.some(tech =>
\*     skill.toLowerCase().includes(tech)))
hasTechSkills(matchedSkills) ==
    \E skill \in Elems(matchedSkills) : \E tech \in Elems(TechSkills) :
        Includes(ToLowerCase(skill), tech)

\* generateRelevanceReasons with the plain `return reasons`
generateRelevanceReasons_NoGeneric(resume, matchedSkills, job) ==
    (IF Len(matchedSkills) > 3 THEN <<ReasonStrong(Len(matchedSkills))>> ELSE <<>>)
    \o (IF hasTechSkills(matchedSkills) THEN <<ReasonCore>> ELSE <<>>)

\* resume.generateRelevanceReasons(matchedSkills, job); resume.experience is
\* this.analysis.experience.length, resume.overallScore is
\* this.aiAnalysis.overallScore (Absent: undefined, and undefined > 85 is false)
generateRelevanceReasons(resume, matchedSkills, job) ==
    LET reasons ==
            (IF Len(matchedSkills) > 3
             THEN <<ReasonStrong(Len(matchedSkills))>> ELSE <<>>)
            \o (IF resume.experience >= 2 THEN <<ReasonExperience>> ELSE <<>>)
            \o (IF /\ job.level = "senior"
                   /\ resume.overallScore # Absent
                   /\ resume.overallScore[1] > 85
                THEN <<ReasonSenior>> ELSE <<>>)
            \o (IF hasTechSkills(matchedSkills) THEN <<ReasonCore>> ELSE <<>>)
    IN  IF Len(reasons) > 0 THEN reasons ELSE <<ReasonGeneric>>

\* the matched skills, resumes and jobs handed to generateRelevanceReasons
MatchedNames ==
    <<Str_javascript, Str_Java, Str_mysql, Str_aws, Str_docker, Str_git>>
ReasonScores == {Absent, Present(80), Present(85), Present(86), Present(100)}
ReasonCalls ==
    [resume : [experience : 0..3, overallScore : ReasonScores],
     matchedSkills : SubListsUpTo(MatchedNames, MaxMatched),
     job : [level : Levels]]

InitReasons ==
    /\ pIn \in ReasonCalls
    /\ pOut = Absent
    /\ MatchIdle /\ AiIdle /\ StoreIdle /\ AppIdle

CallGenerateRelevanceReasons ==
    /\ pOut = Absent
    /\ pOut' = Present(generateRelevanceReasons(pIn.resume, pIn.matchedSkills,
                                                pIn.job))
    /\ UNCHANGED <<pIn, matchVars, aiVars, storeVars, appVars>>

NextReasons == CallGenerateRelevanceReasons

SpecReasons == InitReasons /\ [][NextReasons]_vars

\* the match an AI response with the member "m" carries
AiJobMatch ==
    [matchScore |-> 88, matchedSkills |-> <<Str_python>>,
     missingSkills |-> <<>>, relevanceReasons |-> <<"Good fit">>]

\* getFallbackJobMatch(resume, job)
getFallbackJobMatch(resume, job) ==
    LET resumeSkills == LowerNames(resume.skills)
        jobSkills == LowerNames(job.skills)
        matchedSkills ==
            SelectSeq(resumeSkills,
                      LAMBDA skill : \E jobSkill \in Elems(jobSkills) :
                          Includes(jobSkill, skill) \/ Includes(skill, jobSkill))
        den == IF Len(jobSkills) > 1 THEN Len(jobSkills) ELSE 1
        rounded == RoundDiv(100 * Len(matchedSkills), den)
    IN  [matchScore |-> IF rounded > 100 THEN 100 ELSE rounded,
         matchedSkills |-> matchedSkills,
         missingSkills |->
             SelectSeq(jobSkills, LAMBDA skill : skill \notin Elems(matchedSkills)),
         relevanceReasons |-> <<"Skills alignment with job requirements">>]

\* parseJobMatchResult: the parsed object, or a fixed result when the response
\* holds no "{...}" or JSON.parse throws
parseJobMatchResult(response) ==
    LET jsonMatch == MatchBraces(response)
        fixed == [matchScore |-> 70, matchedSkills |-> <<>>,
                  missingSkills |-> <<>>, relevanceReasons |-> <<>>]
    IN  IF jsonMatch = Absent THEN fixed
        ELSE IF JsonParse(jsonMatch[1]).threw THEN fixed
        ELSE AiJobMatch

\* matchResumeWithJob(resume, job)
matchResumeWithJob(resume, job, apiKey, outcome) ==
    LET response == callOpenAI(apiKey, outcome)
    IN  IF response.threw THEN getFallbackJobMatch(resume, job)
        ELSE parseJobMatchResult(response.value)

\* what the request does during matchResumeWithJob
JobMatchOutcomes ==
    {[kind |-> "error", text |-> <<>>], [kind |-> "timeout", text |-> <<>>],
     [kind |-> "response", text |-> <<"w">>],
     [kind |-> "response", text |-> <<"{", "w", "}">>],
     [kind |-> "response", text |-> <<"w", "{", "m", "}">>]}

JobMatchCalls ==
    [resume : [skills : SubListsUpTo(ResumeSkillNames, MaxResumeSkills),
               experience : {0, 5}],
     job : [skills : ListsUpTo(JobSkillNames, MaxJobSkills),
            level : {"entry", "senior"}],
     apiKey : BOOLEAN, outcome : JobMatchOutcomes]

InitJobMatch ==
    /\ pIn \in JobMatchCalls
    /\ pOut = Absent
    /\ MatchIdle /\ AiIdle /\ StoreIdle /\ AppIdle

CallMatchResumeWithJob ==
    /\ pOut = Absent
    /\ pOut' = Present(matchResumeWithJob(pIn.resume, pIn.job, pIn.apiKey,
                                          pIn.outcome))
    /\ UNCHANGED <<pIn, matchVars, aiVars, storeVars, appVars>>

NextJobMatch == CallMatchResumeWithJob

SpecJobMatch == InitJobMatch /\ [][NextJobMatch]_vars

-----------------------------------------------------------------------------
(* Resume lifecycle: routes/resumes.js (upload, reprocess, processResumeAsync) *)

\* the HTTP requests (uploads and reprocess requests) of a behaviour
MaxRequests == 3

\* extractedText.length < 100 rejects the upload
MinTextLength == 100

\* resumeFileFilter of the upload middleware
resumeFileFilter(file) == file.mimetype \in {MimePdf, MimeDoc, MimeDocx}

\* the upload handler without the length check of line 30
StoredFiles_NoLengthCheck ==
    {f \in UploadFiles : resumeFileFilter(f) /\ ~ExtractedTexts[f].threw}

\* deleteFile(filePath): fs.unlink; the files on disk are named by the number
\* of the request that uploaded them
deleteFile(disk, path) == disk \ {path}

\* the files that get a resume record, by original name
StoredFiles ==
    {f \in UploadFiles : /\ resumeFileFilter(f)
                         /\ ~ExtractedTexts[f].threw
                         /\ Len(ExtractedTexts[f].value) >= MinTextLength}
StoredNames == {f.originalname : f \in StoredFiles}

\* the extractedText field of the resume created from the file of that name
ExtractedTextOf ==
    [name \in StoredNames |->
        ExtractedTexts[CHOOSE f \in StoredFiles : f.originalname = name].value]

\* resumeProcessor.extractBasicInfo(extractedText), computed once for each text
BasicInfoOf == [name \in StoredNames |-> extractBasicInfo(ExtractedTextOf[name])]

\* what the request to the provider does during a background analysis
AnalysisOutcomes ==
    {[kind |-> "error", text |-> <<>>], [kind |-> "timeout", text |-> <<>>],
     [kind |-> "noChoices", text |-> <<>>],
     [kind |-> "response", text |-> <<"{", "m", "k", "{", "v", "}", "}">>],
     [kind |-> "response", text |-> <<"w">>]}

\* aiService.analyzeResume(extractedText, fileName), computed once for each
\* text, configuration and outcome
AnalysisOf ==
    [name \in StoredNames, apiKey \in BOOLEAN, outcome \in AnalysisOutcomes,
     now \in Clock |->
        analyzeResume(ExtractedTextOf[name], name, apiKey, outcome, now)]

\* the message of the error a rejected findByIdAndUpdate carries
PersistError == "MongoError"

\* Resume.create({..., processingStatus: 'processing'}): the fields of the
\* document the lifecycle concerns; the text is ExtractedTextOf[originalName]
NewResume(file) ==
    [originalName |-> file.originalname,
     processingStatus |-> "processing",
     processingError |-> Absent,
     analysis |-> Absent,
     aiAnalysis |-> Absent]

\* the update with one test, on the heuristic skills, for the three arrays
CompletedUpdate_OneTest(doc, basicInfo, aiAnalysis) ==
    [doc EXCEPT
        !.analysis = Present(
            IF Len(basicInfo.skills) > 0
            THEN [summary |-> aiAnalysis.summary,
                  skills |-> Present(basicInfo.skills),
                  experience |-> Present(basicInfo.experience),
                  education |-> Present(basicInfo.education)]
            ELSE [summary |-> aiAnalysis.summary,
                  skills |-> aiAnalysis.skills,
                  experience |-> aiAnalysis.experience,
                  education |-> aiAnalysis.education]),
        !.aiAnalysis = Present([overallScore |-> aiAnalysis.overallScore,
                                scores |-> aiAnalysis.scores]),
        !.processingStatus = "completed"]

\* the update of lines 95-120: the merged analysis, status completed;
\* processingError is not among the fields written
CompletedUpdate(doc, basicInfo, aiAnalysis) ==
    [doc EXCEPT
        !.analysis = Present(
            [summary |-> aiAnalysis.summary,
             skills |-> IF Len(basicInfo.skills) > 0
                        THEN Present(basicInfo.skills) ELSE aiAnalysis.skills,
             experience |-> IF Len(basicInfo.experience) > 0
                            THEN Present(basicInfo.experience)
                            ELSE aiAnalysis.experience,
             education |-> IF Len(basicInfo.education) > 0
                           THEN Present(basicInfo.education)
                           ELSE aiAnalysis.education]),
        !.aiAnalysis = Present([overallScore |-> aiAnalysis.overallScore,
                                scores |-> aiAnalysis.scores]),
        !.processingStatus = "completed"]

\* the update of the catch block, lines 126-129: analysis is not among the
\* fields written
FailedUpdate(doc, message) ==
    [doc EXCEPT !.processingStatus = "failed",
                !.processingError = Present(message)]

\* resume.processingStatus = 'processing'; resume.processingError = undefined;
\* resume.save() writes the two modified paths
ReprocessUpdate(doc) ==
    [doc EXCEPT !.processingStatus = "processing", !.processingError = Absent]

\* processResumeAsync without its catch block: the error ends the run
Caught_NoCatch(task, message) == {}

\* the catch block of processResumeAsync: the run goes on to record the failure
Caught(task, message) ==
    {[task EXCEPT !.pc = "recordFailure", !.error = message]}

\* processResumeAsync(resumeId, extractedText, fileName) up to its first
\* await: extractBasicInfo runs, then the request to the provider is issued.
\* n is the request that starts the run
StartTask(n, resumeId, fileName) ==
    LET task == [n |-> n, resume |-> resumeId, fileName |-> fileName,
                 pc |-> "analyze", error |-> ""]
    IN  IF BasicInfoOf[fileName].threw
        THEN Caught(task, BasicInfoOf[fileName].value)
        ELSE {task}

\* the process configuration; no resume, no request
Init ==
    /\ aApiKey \in BOOLEAN
    /\ aText = <<>> /\ aCall = Absent
    /\ MatchIdle /\ StoreIdle /\ PureIdle /\ AppIdle

\* POST /: the upload middleware refuses the file; the handler does not run
UploadFiltered ==
    /\ nReq < MaxRequests
    /\ \E file \in UploadFiles : ~resumeFileFilter(file)
    /\ nReq' = nReq + 1
    /\ UNCHANGED <<resumes, tasks, reqs, files, matchVars, aiVars, pureVars,
                   appVars>>

\* POST /: extractText throws (500) or the text is shorter than 100
\* characters (400), or Resume.create rejects (500); the file is deleted
UploadRejected ==
    /\ nReq < MaxRequests
    /\ \E file \in UploadFiles :
          /\ resumeFileFilter(file)
          /\ \/ ExtractedTexts[file].threw
             \/ Len(ExtractedTexts[file].value) < MinTextLength
             \/ file \in StoredFiles  \* Resume.create rejects
    /\ files' = deleteFile(files \cup {nReq + 1}, nReq + 1)
    /\ nReq' = nReq + 1
    /\ UNCHANGED <<resumes, tasks, reqs, matchVars, aiVars, pureVars, appVars>>

\* POST /: the record is created in status processing and the background
\* analysis is started (201)
Upload ==
    /\ nReq < MaxRequests
    /\ \E file \in StoredFiles :
          /\ resumes' = Append(resumes, NewResume(file))
          /\ tasks' = tasks \cup StartTask(nReq + 1, Len(resumes) + 1,
                                           file.originalname)
    /\ files' = files \cup {nReq + 1}
    /\ nReq' = nReq + 1
    /\ UNCHANGED <<reqs, matchVars, aiVars, pureVars, appVars>>

\* POST /:id/reprocess, checkOwnership(Resume): the document is loaded into
\* req.resource
ReprocessLoad ==
    /\ nReq < MaxRequests
    /\ \E id \in DOMAIN resumes :
          reqs' = reqs \cup {[n |-> nReq + 1, id |-> id, resource |-> resumes[id]]}
    /\ nReq' = nReq + 1
    /\ UNCHANGED <<resumes, tasks, files, matchVars, aiVars, pureVars, appVars>>

\* POST /:id/reprocess, handler: the loaded status is processing (400)
ReprocessReject ==
    /\ \E req \in reqs :
          /\ req.resource.processingStatus = "processing"
          /\ reqs' = reqs \ {req}
    /\ UNCHANGED <<resumes, tasks, files, nReq, matchVars, aiVars, pureVars,
                   appVars>>

\* POST /:id/reprocess, handler: the loaded status is not processing; save,
\* then start the background analysis; a rejected save answers 500
ReprocessSave ==
    /\ \E req \in reqs, saved \in BOOLEAN :
          /\ req.resource.processingStatus # "processing"
          /\ reqs' = reqs \ {req}
          /\ IF saved
             THEN /\ resumes' = [resumes EXCEPT
                                    ![req.id] = ReprocessUpdate(resumes[req.id])]
                  /\ tasks' = tasks \cup StartTask(req.n, req.id,
                                                   req.resource.originalName)
             ELSE UNCHANGED <<resumes, tasks>>
    /\ UNCHANGED <<files, nReq, matchVars, aiVars, pureVars, appVars>>

\* processResumeAsync: analyzeResume resolves and the completion update is
\* applied
TaskComplete ==
    /\ \E task \in tasks, outcome \in AnalysisOutcomes, now \in Clock :
          /\ task.pc = "analyze"
          /\ resumes' = [resumes EXCEPT ![task.resume] =
                 CompletedUpdate(resumes[task.resume],
                     BasicInfoOf[task.fileName].value,
                     AnalysisOf[task.fileName, aApiKey, outcome, now].value)]
          /\ tasks' = tasks \ {task}
    /\ UNCHANGED <<reqs, files, nReq, matchVars, aiVars, pureVars, appVars>>

\* processResumeAsync: analyzeResume resolves and the completion update is
\* rejected
TaskCompleteRejected ==
    /\ \E task \in tasks :
          /\ task.pc = "analyze"
          /\ tasks' = (tasks \ {task}) \cup Caught(task, PersistError)
    /\ UNCHANGED <<resumes, reqs, files, nReq, matchVars, aiVars, pureVars,
                   appVars>>

\* processResumeAsync, catch block: the failure update is applied
TaskRecordFailure ==
    /\ \E task \in tasks :
          /\ task.pc = "recordFailure"
          /\ resumes' = [resumes EXCEPT ![task.resume] =
                 FailedUpdate(resumes[task.resume], task.error)]
          /\ tasks' = tasks \ {task}
    /\ UNCHANGED <<reqs, files, nReq, matchVars, aiVars, pureVars, appVars>>

\* processResumeAsync, catch block: the failure update is rejected; nothing
\* handles the rejection
TaskRecordFailureLost ==
    /\ \E task \in tasks :
          /\ task.pc = "recordFailure"
          /\ tasks' = tasks \ {task}
    /\ UNCHANGED <<resumes, reqs, files, nReq, matchVars, aiVars, pureVars,
                   appVars>>

Request ==
    UploadFiltered \/ UploadRejected \/ Upload \/ ReprocessLoad
        \/ ReprocessReject \/ ReprocessSave

\* the steps of the background analyses whose updates, when they are
\* rejected, are rejected for the completion update only
TaskStep == TaskComplete \/ TaskCompleteRejected \/ TaskRecordFailure

Next == Request \/ TaskStep \/ TaskRecordFailureLost

Spec == Init /\ [][Next]_vars

\* the event loop runs every pending continuation: a background analysis that
\* can take a step takes one. The failure update is taken to be applied
NextLive == Request \/ TaskStep

SpecLive == Init /\ [][NextLive]_vars /\ WF_vars(TaskStep)

-----------------------------------------------------------------------------
(* Improvement suggestions: generateImprovements *)

\* the object a parsed improvements response denotes
AiImprovements ==
    [improvements |-> <<"Quantify the impact of the migration project">>,
     skillGaps |-> <<"kubernetes">>,
     formatSuggestions |-> <<>>,
     contentSuggestions |-> <<"List the certifications">>]

\* getFallbackImprovements(resume)
getFallbackImprovements(resume) ==
    [improvements |->
         <<"Add more specific achievements with quantifiable results",
           "Include relevant keywords from target job descriptions",
           "Improve formatting and visual presentation">>,
     skillGaps |-> <<"Consider learning trending technologies">>,
     formatSuggestions |-> <<"Use consistent formatting throughout">>,
     contentSuggestions |-> <<"Add more detailed project descriptions">>]

\* parseImprovements: the parsed object, or four empty lists when the
\* response holds no "{...}" or JSON.parse throws
parseImprovements(response) ==
    LET jsonMatch == MatchBraces(response)
        empty == [improvements |-> <<>>, skillGaps |-> <<>>,
                  formatSuggestions |-> <<>>, contentSuggestions |-> <<>>]
    IN  IF jsonMatch = Absent THEN empty
        ELSE IF JsonParse(jsonMatch[1]).threw THEN empty
        ELSE AiImprovements

\* generateImprovements(resume, targetJob = null)
generateImprovements(resume, apiKey, outcome) ==
    LET response == callOpenAI(apiKey, outcome)
    IN  IF response.threw THEN getFallbackImprovements(resume)
        ELSE parseImprovements(response.value)

\* the resumes, configurations and request outcomes of the calls considered
ImprovementCalls ==
    [resume : [summary : {Absent, Present(AiSummary)},
               skills : SubListsUpTo(ResumeSkillNames, MaxResumeSkills),
               overallScore : {FallbackOverallScore, AiOverallScore}],
     apiKey : BOOLEAN, outcome : JobMatchOutcomes]

InitImprovements ==
    /\ pIn \in ImprovementCalls
    /\ pOut = Absent
    /\ MatchIdle /\ AiIdle /\ StoreIdle /\ AppIdle

CallGenerateImprovements ==
    /\ pOut = Absent
    /\ pOut' = Present(generateImprovements(pIn.resume, pIn.apiKey, pIn.outcome))
    /\ UNCHANGED <<pIn, matchVars, aiVars, storeVars, appVars>>

NextImprovements == CallGenerateImprovements

SpecImprovements == InitImprovements /\ [][NextImprovements]_vars

-----------------------------------------------------------------------------
(* The merge of processResumeAsync, for any heuristic and AI arrays *)

\* what extractBasicInfo may give: each array empty or not
MergeBasicInfos ==
    [skills : {<<>>, <<Str_python>>},
     experience : {<<>>, <<Str_expert>>},
     education : {<<>>, <<Str_years>>}]

\* what analyzeResume may give: each array missing, empty or not
MergeAnalyses ==
    [summary : {Absent, Present(AiSummary)},
     skills : {Absent, Present(<<>>), Present(AiSkills)},
     experience : {Absent, Present(<<>>), Present(<<"Software Developer">>)},
     education : {Absent, Present(<<>>), Present(<<"Bachelor's Degree">>)},
     overallScore : {Num(FallbackOverallScore)},
     scores : {Absent}]

MergeFile == [originalname |-> "py.docx", mimetype |-> MimeDocx, parses |-> TRUE]

InitMerge ==
    /\ pIn \in [basicInfo : MergeBasicInfos, aiAnalysis : MergeAnalyses]
    /\ pOut = Absent
    /\ MatchIdle /\ AiIdle /\ StoreIdle /\ AppIdle

\* the completion update of processResumeAsync on a resume in processing
CallCompletedUpdate ==
    /\ pOut = Absent
    /\ pOut' = Present(CompletedUpdate(NewResume(MergeFile), pIn.basicInfo,
                                       pIn.aiAnalysis))
    /\ UNCHANGED <<pIn, matchVars, aiVars, storeVars, appVars>>

NextMerge == CallCompletedUpdate

SpecMerge == InitMerge /\ [][NextMerge]_vars

-----------------------------------------------------------------------------
(* Applications: models/Application.js, the Job model, and the apply, status,
   withdraw and interview routes *)

\* the apply requests of a behaviour
MaxApplies == 3
\* the operations on applications of a behaviour
MaxStatusOps == 3

Users == {1, 2}
JobIds == {1, 2}
\* job statuses (of 'active', 'paused', 'closed', 'draft')
JobStatuses == {"active", "closed"}
\* the enum of status and statusHistory.status
ApplicationStatuses ==
    {"pending", "reviewing", "shortlisted", "interview", "offer", "rejected",
     "withdrawn"}

\* a job document: its status and its applications counter (default 0)
NewJob(status) == [status |-> status, applications |-> 0]

\* the latest active resume of a user, with its processingStatus
LatestResume(status) ==
    [NewResume(MergeFile) EXCEPT !.processingStatus = status]

\* job.incrementApplications() on a loaded copy: this.applications += 1, and
\* save() writes the modified path to the stored document
incrementApplications(stored, loaded) ==
    [stored EXCEPT !.applications = loaded.applications + 1]

\* Application.findOne({user, job})
Existing(apps, user, job) == {a \in apps : a.user = user /\ a.job = job}

\* the collection without its unique index
DuplicateKey_NoIndex(apps, user, job) == FALSE

\* the unique index on (user, job): an insert of a pair that is present is
\* rejected with a duplicate key error
DuplicateKey(apps, user, job) == Existing(apps, user, job) # {}

\* Application.create({user, job, ...}): status defaults to pending and the
\* pre('save') hook pushes the initial status on the new document
NewApplication(id, user, job) ==
    [id |-> id, user |-> user, job |-> job, status |-> "pending",
     statusHistory |-> <<"pending">>, interviews |-> 0]

\* application.updateStatus(newStatus, changedBy, notes)
updateStatus(app, newStatus) ==
    [app EXCEPT !.status = newStatus,
                !.statusHistory = Append(@, newStatus)]

\* application.scheduleInterview(interviewData)
scheduleInterview(app) ==
    [app EXCEPT !.interviews = @ + 1,
                !.status = IF @ \in {"pending", "reviewing"} THEN "interview" ELSE @]

\* jobs and users' resumes in any status; no application, no request
InitApply ==
    /\ jobs \in [JobIds -> {NewJob(status) : status \in JobStatuses}]
    /\ resumes \in [Users -> {LatestResume(status) :
                                 status \in {"completed", "processing"}}]
    /\ tasks = {} /\ reqs = {} /\ files = {} /\ nReq = 0
    /\ applications = {} /\ applyReqs = {} /\ nOps = 0
    /\ MatchIdle /\ AiIdle /\ PureIdle

\* POST /api/applications: the job is missing or not active (404), or the
\* user's latest resume is not completed (400)
ApplyRejected ==
    /\ nOps < MaxApplies
    /\ \E user \in Users, job \in JobIds :
          \/ jobs[job].status # "active"
          \/ resumes[user].processingStatus # "completed"
    /\ nOps' = nOps + 1
    /\ UNCHANGED <<applications, jobs, applyReqs, matchVars, aiVars, storeVars,
                   pureVars>>

\* POST /api/applications: Job.findById and Resume.getLatestByUser pass; the
\* handler holds its copy of the job
ApplyLoad ==
    /\ nOps < MaxApplies
    /\ \E user \in Users, job \in JobIds :
          /\ jobs[job].status = "active"
          /\ resumes[user].processingStatus = "completed"
          /\ applyReqs' = applyReqs \cup
                {[n |-> nOps + 1, user |-> user, job |-> job,
                  loaded |-> jobs[job], pc |-> "findExisting"]}
    /\ nOps' = nOps + 1
    /\ UNCHANGED <<applications, jobs, matchVars, aiVars, storeVars, pureVars>>

\* Application.findOne finds an application of the user for the job (400)
ApplyFindExisting ==
    /\ \E r \in applyReqs :
          /\ r.pc = "findExisting"
          /\ Existing(applications, r.user, r.job) # {}
          /\ applyReqs' = applyReqs \ {r}
    /\ UNCHANGED <<applications, jobs, nOps, matchVars, aiVars, storeVars,
                   pureVars>>

\* Application.findOne finds none; the handler goes on to create
ApplyFindNone ==
    /\ \E r \in applyReqs :
          /\ r.pc = "findExisting"
          /\ Existing(applications, r.user, r.job) = {}
          /\ applyReqs' = (applyReqs \ {r}) \cup {[r EXCEPT !.pc = "create"]}
    /\ UNCHANGED <<applications, jobs, nOps, matchVars, aiVars, storeVars,
                   pureVars>>

\* Application.create inserts the record
ApplyCreate ==
    /\ \E r \in applyReqs :
          /\ r.pc = "create"
          /\ ~DuplicateKey(applications, r.user, r.job)
          /\ applications' = applications \cup {NewApplication(r.n, r.user, r.job)}
          /\ applyReqs' = (applyReqs \ {r}) \cup {[r EXCEPT !.pc = "increment"]}
    /\ UNCHANGED <<jobs, nOps, matchVars, aiVars, storeVars, pureVars>>

\* Application.create is rejected by the unique index; the catch block
\* answers 500
ApplyCreateRejected ==
    /\ \E r \in applyReqs :
          /\ r.pc = "create"
          /\ DuplicateKey(applications, r.user, r.job)
          /\ applyReqs' = applyReqs \ {r}
    /\ UNCHANGED <<applications, jobs, nOps, matchVars, aiVars, storeVars,
                   pureVars>>

\* job.incrementApplications() on the copy loaded at the start (201)
ApplyIncrement ==
    /\ \E r \in applyReqs :
          /\ r.pc = "increment"
          /\ jobs' = [jobs EXCEPT ![r.job] = incrementApplications(@, r.loaded)]
          /\ applyReqs' = applyReqs \ {r}
    /\ UNCHANGED <<applications, nOps, matchVars, aiVars, storeVars, pureVars>>

NextApply ==
    \/ ApplyRejected \/ ApplyLoad \/ ApplyFindExisting \/ ApplyFindNone
    \/ ApplyCreate \/ ApplyCreateRejected \/ ApplyIncrement

SpecApply == InitApply /\ [][NextApply]_vars

\* active jobs, no application
InitStatus ==
    /\ jobs = [job \in JobIds |-> NewJob("active")]
    /\ applications = {} /\ applyReqs = {} /\ nOps = 0
    /\ MatchIdle /\ AiIdle /\ StoreIdle /\ PureIdle

\* Application.create for a user and a job
CreateApplication ==
    /\ nOps < MaxStatusOps
    /\ \E user \in Users, job \in JobIds :
          /\ ~DuplicateKey(applications, user, job)
          /\ applications' = applications \cup {NewApplication(nOps + 1, user, job)}
    /\ nOps' = nOps + 1
    /\ UNCHANGED <<jobs, applyReqs, matchVars, aiVars, storeVars, pureVars>>

\* PATCH /api/applications/:id/status with one of the valid statuses
UpdateStatus ==
    /\ nOps < MaxStatusOps
    /\ \E app \in applications, status \in ApplicationStatuses :
          applications' = (applications \ {app}) \cup {updateStatus(app, status)}
    /\ nOps' = nOps + 1
    /\ UNCHANGED <<jobs, applyReqs, matchVars, aiVars, storeVars, pureVars>>

\* PATCH /api/applications/:id/withdraw
Withdraw ==
    /\ nOps < MaxStatusOps
    /\ \E app \in applications :
          /\ app.status \notin {"withdrawn", "offer", "rejected"}
          /\ applications' =
                (applications \ {app}) \cup {updateStatus(app, "withdrawn")}
    /\ nOps' = nOps + 1
    /\ UNCHANGED <<jobs, applyReqs, matchVars, aiVars, storeVars, pureVars>>

\* PATCH /api/applications/:id/withdraw on a withdrawn, offered or rejected
\* application (400)
WithdrawRejected ==
    /\ nOps < MaxStatusOps
    /\ \E app \in applications : app.status \in {"withdrawn", "offer", "rejected"}
    /\ nOps' = nOps + 1
    /\ UNCHANGED <<applications, jobs, applyReqs, matchVars, aiVars, storeVars,
                   pureVars>>

\* POST /api/applications/:id/interview
ScheduleInterview ==
    /\ nOps < MaxStatusOps
    /\ \E app \in applications :
          applications' = (applications \ {app}) \cup {scheduleInterview(app)}
    /\ nOps' = nOps + 1
    /\ UNCHANGED <<jobs, applyReqs, matchVars, aiVars, storeVars, pureVars>>

NextStatus ==
    \/ CreateApplication \/ UpdateStatus \/ Withdraw \/ WithdrawRejected
    \/ ScheduleInterview

SpecStatus == InitStatus /\ [][NextStatus]_vars

-----------------------------------------------------------------------------
(* Properties of the Match Scorer (specification SpecMatch) *)

\* t is a contiguous part of s: s = pre \o t \o post
IsSubstring(t, s) ==
    \E a \in 1..(Len(s) + 1) : \E b \in (a - 1)..Len(s) :
        /\ b - a + 1 = Len(t)
        /\ \A i \in 1..Len(t) : s[a + i - 1] = t[i]

Related(a, b) == IsSubstring(a, b) \/ IsSubstring(b, a)

\* xs is ys with the elements that fail keep(_) left out, order kept
IsSelection(xs, ys, keep(_)) ==
    /\ \A i \in 1..Len(xs) : \E j \in 1..Len(ys) : xs[i] = ys[j] /\ keep(ys[j])
    /\ \A j \in 1..Len(ys) : keep(ys[j]) => \E i \in 1..Len(xs) : xs[i] = ys[j]
    /\ Len(xs) = Cardinality({j \in 1..Len(ys) : keep(ys[j])})
    /\ \A i1, i2 \in 1..Len(xs) : i1 < i2 =>
          \E j1, j2 \in 1..Len(ys) : j1 < j2 /\ ys[j1] = xs[i1] /\ ys[j2] = xs[i2]

\* k is num/den clamped to [0, 100] and rounded to the nearest integer
IsClampedRound(k, num, den) ==
    /\ k \in 0..100
    /\ num >= 100 * den => k = 100
    /\ num <= 0 => k = 0
    /\ (0 < num /\ num < 100 * den) =>
          (2 * den * k <= 2 * num + den /\ 2 * num + den < 2 * den * (k + 1))

\* the table of the specification: threshold and penalty of each level
TableThreshold(level) ==
    CASE level = "entry" -> 0 [] level = "junior" -> 1 [] level = "mid" -> 3
      [] level = "senior" -> 5 [] level = "lead" -> 7 [] level = "executive" -> 10
TablePenalty(level) ==
    CASE level = "entry" -> -10 [] level = "junior" -> -5 [] level = "mid" -> -5
      [] level = "senior" -> -10 [] level = "lead" -> -15 [] level = "executive" -> -20
TableAdjustment(level, experience) ==
    IF experience >= TableThreshold(level) THEN 10 ELSE TablePenalty(level)

\* C1: whenever calculateJobMatch has returned, for any resume skills, any
\* number of experience entries, any job skills (none included) and any of the
\* six levels, matchScore is an integer between 0 and 100.
C1_ScoreBounded ==
    mResult # Absent => mResult[1].matchScore \in 0..100

\* C1 case: a full skill match plus the +10 bonus exceeds 100 and is clamped.
C1_Witness ==
    /\ mResult # Absent
    /\ mJob.skills # <<>>
    /\ Len(mResult[1].matchedSkills) >= Len(mJob.skills)
    /\ mJob.level = "senior" /\ mResume.experience >= 5
    /\ mResult[1].matchScore = 100

\* C2: matchedSkills is the lowercased resume skills related (by containment in
\* either direction) to some lowercased job skill, missingSkills the lowercased
\* job skills related to no resume skill, and the score is
\* matched / jobSkills * 100 (0 for a job without skills) plus the level
\* adjustment, clamped to [0,100] and rounded; the instance of the
\* specification gives [javascript], [python] and 60.
C2_MatchedMissingBase ==
    mResult # Absent =>
        LET r == mResult[1]
            rs == LowerNames(mResume.skills)
            js == LowerNames(mJob.skills)
            adj == LevelAdjustment(mJob.level, mResume.experience)
        IN  /\ IsSelection(r.matchedSkills, rs,
                   LAMBDA x : \E j \in 1..Len(js) : Related(x, js[j]))
            /\ IsSelection(r.missingSkills, js,
                   LAMBDA x : ~\E i \in 1..Len(rs) : Related(x, rs[i]))
            /\ Len(js) > 0 =>
                  IsClampedRound(r.matchScore,
                      100 * Len(r.matchedSkills) + adj * Len(js), Len(js))
            /\ Len(js) = 0 => IsClampedRound(r.matchScore, adj, 1)
            /\ ( /\ mResume = [skills |-> <<Str_javascript, Str_react, Str_nodejs>>,
                               experience |-> 4]
                 /\ mJob = [skills |-> <<Str_javascript, Str_python>>, level |-> "mid"] )
               => r = [matchScore |-> 60,
                       matchedSkills |-> <<Str_javascript>>,
                       missingSkills |-> <<Str_python>>]

\* C2 case: the instance of the specification has been scored.
C2_Witness ==
    /\ mResult # Absent
    /\ mResume = [skills |-> <<Str_javascript, Str_react, Str_nodejs>>, experience |-> 4]
    /\ mJob = [skills |-> <<Str_javascript, Str_python>>, level |-> "mid"]
    /\ mResult[1].matchedSkills = <<Str_javascript>>

\* C3: the score returned is the base score plus +10 when the experience count
\* reaches the threshold of the job level (0, 1, 3, 5, 7, 10) and plus the
\* penalty of the level (-10, -5, -5, -10, -15, -20) otherwise; the instance
\* (no experience, [aws] against a senior [aws] job) scores 90.
C3_LevelAdjustmentTable ==
    mResult # Absent =>
        LET r == mResult[1]
            n == Len(mJob.skills)
            adj == TableAdjustment(mJob.level, mResume.experience)
        IN  /\ IsClampedRound(r.matchScore,
                   IF n > 0 THEN 100 * Len(r.matchedSkills) + adj * n ELSE adj,
                   IF n > 0 THEN n ELSE 1)
            /\ ( /\ mResume = [skills |-> <<Str_aws>>, experience |-> 0]
                 /\ mJob = [skills |-> <<Str_aws>>, level |-> "senior"] )
               => r.matchScore = 90

\* C3 case: the instance has been scored with the senior penalty.
C3_Witness ==
    /\ mResult # Absent
    /\ mResume = [skills |-> <<Str_aws>>, experience |-> 0]
    /\ mJob = [skills |-> <<Str_aws>>, level |-> "senior"]
    /\ mResult[1].matchScore = 90

-----------------------------------------------------------------------------
(* Properties of the AI Analysis Client (specification SpecAI) *)

\* the response holds no "{...}", or what it holds is not valid JSON
ParseFails(response) ==
    \/ MatchBraces(response) = Absent
    \/ JsonParse(MatchBraces(response)[1]).threw

\* the external call failed: no credential, request error, timeout, a body
\* without content, or a response that cannot be parsed
IsProviderFailure(outcome) ==
    \/ outcome.kind \in {"noKey", "error", "timeout", "noChoices"}
    \/ outcome.kind = "response" /\ ParseFails(outcome.text)

\* C4: analyzeResume called with a string text returns an analysis result and
\* never raises to its caller, whatever the external call does (no API key,
\* request error, timeout, no "{...}" in the response, invalid JSON, valid
\* JSON).
C4_NeverRaises ==
    aCall # Absent =>
        /\ ~aCall[1].call.threw
        /\ aCall[1].call.value.fileName = AiFileName

\* C4 case: the response held braces around text that is not valid JSON, and
\* the call returned.
C4_Witness ==
    /\ aCall # Absent
    /\ aCall[1].outcome.kind = "response"
    /\ MatchBraces(aCall[1].outcome.text) # Absent
    /\ ParseFails(aCall[1].outcome.text)
    /\ ~aCall[1].call.threw

\* C5: in every failure case of the AI call the result carries the fallback
\* keyword scan of the text that was passed in (the same skills in all failure
\* cases for one text, and some skill when the text mentions a keyword).
C5_FailureGivesFallbackOfText ==
    (aCall # Absent /\ IsProviderFailure(aCall[1].outcome)) =>
        /\ ~aCall[1].call.threw
        /\ aCall[1].call.value.skills =
              getFallbackResumeAnalysis(aText, AiFileName, 1).skills

\* C14: on every path that returns the fallback analysis (missing credential,
\* call failure, parse failure) the result has its fields populated, the
\* sub-scores 75, 80, 85, 75, 70, 65 and overallScore 75, their rounded mean;
\* with a missing credential no request is issued.
C14_FallbackComplete ==
    (aCall # Absent /\ IsProviderFailure(aCall[1].outcome)) =>
        LET result == aCall[1].call.value
        IN  /\ ~aCall[1].call.threw
            /\ result.summary # Absent /\ result.skills # Absent
            /\ result.experience # Absent /\ result.education # Absent
            /\ result.scores = Present([numeric |-> TRUE,
                                        values |-> <<75, 80, 85, 75, 70, 65>>])
            /\ result.overallScore = Num(75)
            /\ result.overallScore = Num(RoundDiv(75 + 80 + 85 + 75 + 70 + 65, 6))
            /\ aCall[1].outcome.kind = "noKey" => aCall[1].requests = 0

\* without an API key the fallback was returned and no request was issued
C14_Witness ==
    /\ aCall # Absent
    /\ aCall[1].outcome.kind = "noKey"
    /\ aCall[1].requests = 0
    /\ aCall[1].call.value.overallScore = Num(75)
    /\ aText = Txt_pythonAws

\* C15: when the call succeeds and the response parses to an object that
\* gives an overallScore, the result of analyzeResume carries that value.
C15_AiScoreTrusted ==
    (/\ aCall # Absent
     /\ aCall[1].outcome.kind = "response"
     /\ ~ParseFails(aCall[1].outcome.text)
     /\ JsonParse(MatchBraces(aCall[1].outcome.text)[1]).value.m) =>
        aCall[1].call.value.overallScore = Num(AiOverallScore)

-----------------------------------------------------------------------------
(* Properties of the resume lifecycle (specifications Spec and SpecLive) *)

Settled == {"completed", "failed"}

\* the status of the resume id, "none" before it is created
StatusOf(id) ==
    IF id \in DOMAIN resumes THEN resumes[id].processingStatus ELSE "none"

\* the background analyses in flight for the resume id
TasksOf(id) == {task \in tasks : task.resume = id}

\* C6: a resume reaches status failed only through an error of the
\* merge/persist step: every run that records a failure, and every failed
\* resume, carries the error of a rejected update (a provider failure gives
\* completed and no error).
C6_FailedOnlyThroughPersist ==
    /\ \A task \in tasks : task.pc = "recordFailure" => task.error = PersistError
    /\ \A id \in DOMAIN resumes :
          resumes[id].processingStatus = "failed"
              => resumes[id].processingError = Present(PersistError)

C8_OneAnalysisPerResume ==
    \A id \in DOMAIN resumes : Cardinality(TasksOf(id)) <= 1

\* a step in which every resume is created in status processing, changes
\* status only from processing to completed or failed while a background
\* analysis of it ends, or from completed or failed to processing while a
\* reprocess request for it is handled, and in which handling a reprocess
\* request for a resume in status processing changes neither its status nor
\* its stored error and starts no analysis
LegalStatusStep ==
    /\ \A id \in DOMAIN resumes' \ DOMAIN resumes :
          resumes'[id].processingStatus = "processing"
    /\ \A id \in DOMAIN resumes :
          LET before == resumes[id].processingStatus
              after == resumes'[id].processingStatus
          IN  before # after =>
                 \/ /\ before = "processing" /\ after \in Settled
                    /\ \E task \in tasks \ tasks' : task.resume = id
                 \/ /\ before \in Settled /\ after = "processing"
                    /\ \E req \in reqs \ reqs' : req.id = id
    /\ \A req \in reqs \ reqs' :
          resumes[req.id].processingStatus = "processing" =>
             /\ resumes'[req.id].processingStatus = "processing"
             /\ resumes'[req.id].processingError = resumes[req.id].processingError
             /\ \A task \in tasks' \ tasks : task.resume # req.id

\* C9: a resume's status is processing when the upload creates it and
\* afterwards changes only along processing->completed and processing->failed
\* (by the background analysis) and completed->processing and
\* failed->processing (by reprocess); a reprocess request on a resume in
\* status processing is rejected: every step is a LegalStatusStep.
C9_StatusTransitions == [][LegalStatusStep]_vars

\* C10: a failed resume has an error message and no analysis attached, a
\* completed resume has its analysis and no error message attached.
C10_StatusMatchesAttachments ==
    \A id \in DOMAIN resumes :
        /\ resumes[id].processingStatus = "failed" =>
              /\ resumes[id].processingError # Absent
              /\ resumes[id].analysis = Absent
              /\ resumes[id].aiAnalysis = Absent
        /\ resumes[id].processingStatus = "completed" =>
              /\ resumes[id].analysis # Absent
              /\ resumes[id].aiAnalysis # Absent
              /\ resumes[id].processingError = Absent

-----------------------------------------------------------------------------
(* Properties of the extractor (specification SpecExtractor) *)

\* the call op has returned or thrown
Called(op) == pIn # Absent /\ pIn.op = op /\ pOut # Absent

Supported(mimetype) == mimetype \in {MimePdf, MimeDoc, MimeDocx}

\* C12: for every MIME type other than the three supported ones extractText
\* throws, and the error differs from the error it throws for an unreadable
\* document of a supported type.
C12_UnsupportedFormatDistinct ==
    (Called("extractText") /\ ~Supported(pIn.file.mimetype)) =>
        /\ pOut[1].threw
        /\ \A g \in ExtractFiles :
              (Supported(g.mimetype) /\ ~g.parses)
                  => extractText(g).value # pOut[1].value

HorizontalChars == {" ", "\t"}

\* C16: the output of cleanText holds no CR, no three consecutive newlines,
\* no two consecutive spaces or tabs, and no whitespace at either end.
C16_CleanTextNormalForm ==
    Called("cleanText") =>
        LET out == pOut[1].value
        IN  /\ \A i \in 1..Len(out) : out[i] # "\r"
            /\ \A i \in 1..(Len(out) - 2) :
                  ~(out[i] = "\n" /\ out[i + 1] = "\n" /\ out[i + 2] = "\n")
            /\ \A i \in 1..(Len(out) - 1) :
                  ~(out[i] \in HorizontalChars /\ out[i + 1] \in HorizontalChars)
            /\ out # <<>> => (out[1] \notin SpaceChars /\ out[Len(out)] \notin SpaceChars)

\* a text with a leading space, a CR and a tab has been normalized to "a a"
C16_Witness ==
    /\ Called("cleanText")
    /\ pIn.text = <<" ", "a", "\r", "\t", "a">>
    /\ pOut[1].value = <<"a", " ", "a">>

\* runs of two or more spaces or tabs become one space; newlines stay
CollapseHorizontal(s) ==
    LET first == {i \in 1..Len(s) :
                     s[i] \in HorizontalChars
                         /\ (i = 1 \/ s[i - 1] \notin HorizontalChars)}
        long == {i \in first : i < Len(s) /\ s[i + 1] \in HorizontalChars}
        t == [i \in 1..Len(s) |-> IF i \in long THEN " " ELSE s[i]]
    IN  KeepAt(t, {i \in 1..Len(s) : s[i] \notin HorizontalChars \/ i \in first})

\* the normalization of the claim: CR and CRLF to LF, three or more newlines
\* to two, runs of horizontal whitespace to one space, trim
NormalizeLines(text) ==
    Trim(CollapseHorizontal(CollapseNewlines(ReplaceCR(ReplaceCRLF(text)))))

\* C17: cleanText turns runs of three or more newlines into two newlines,
\* keeps single and double newlines, and collapses only runs of spaces and
\* tabs: its output is NormalizeLines of its input.
C17_NewlinesKept ==
    Called("cleanText") => pOut[1].value = NormalizeLines(pIn.text)

\* the number of places where the keyword stands in the text
Occurrences(text, skill) ==
    Cardinality({i \in 1..(Len(text) - Len(skill) + 1) :
                    SubSeq(text, i, i + Len(skill) - 1) = skill})

\* the reinforcement words that stand directly before or after the keyword
Reinforcements(text, skill) ==
    {w \in 1..Len(ContextWords) :
        \/ Includes(text, ContextWords[w] \o <<" ">> \o skill)
        \/ Includes(text, skill \o <<" ">> \o ContextWords[w])}

\* C18: for every text and matched keyword the confidence, in tenths, is
\* min(10, min(9, 3 + n) + k) for n occurrences of the keyword and k
\* reinforcement words next to it (so it lies in 0..10, is 4 for n = 1, k = 0
\* and 7 for n = 3, k = 1).
C18_ConfidenceFormula ==
    Called("calculateSkillConfidence") =>
        LET n == Occurrences(pIn.text, pIn.skill)
            k == Cardinality(Reinforcements(pIn.text, pIn.skill))
        IN  ~pOut[1].threw /\ pOut[1].value = Min(10, Min(9, 3 + n) + k)

-----------------------------------------------------------------------------
(* Properties of the relevance reasons (SpecReasons) and of the job-matching
   call (SpecJobMatch) *)

\* the triggers of the four reasons, in their fixed order
ReasonTriggers ==
    <<Len(pIn.matchedSkills) > 3,
      pIn.resume.experience >= 2,
      pIn.job.level = "senior" /\ pIn.resume.overallScore # Absent
          /\ pIn.resume.overallScore[1] > 85,
      hasTechSkills(pIn.matchedSkills)>>

\* C19: generateRelevanceReasons returns a non-empty list: the messages whose
\* trigger holds, in the fixed order strong skill alignment, relevant
\* experience level, senior-level qualifications, core technology stack; the
\* single generic reason exactly when no trigger holds, and never the generic
\* reason together with another.
C19_ReasonsInOrder ==
    (pIn # Absent /\ pOut # Absent) =>
        LET out == pOut[1]
            all == <<ReasonStrong(Len(pIn.matchedSkills)), ReasonExperience,
                     ReasonSenior, ReasonCore>>
            fired == KeepAt(all, {i \in 1..4 : ReasonTriggers[i]})
        IN  /\ Len(out) > 0
            /\ fired # <<>> => out = fired
            /\ (fired = <<>>) <=> (out = <<ReasonGeneric>>)
            /\ ReasonGeneric \in Elems(out) => Len(out) = 1

\* all four triggers hold and the four reasons are returned in order
C19_Witness ==
    /\ pIn # Absent /\ pOut # Absent
    /\ Len(pIn.matchedSkills) = 4
    /\ pOut[1] = <<ReasonStrong(4), ReasonExperience, ReasonSenior, ReasonCore>>

\* the call failed, or its response could not be parsed
JobMatchFailed ==
    \/ callOpenAI(pIn.apiKey, pIn.outcome).threw
    \/ MatchBraces(pIn.outcome.text) = Absent
    \/ JsonParse(MatchBraces(pIn.outcome.text)[1]).threw

\* C20: when the job-matching call fails or its response cannot be parsed,
\* matchResumeWithJob returns the matchScore, matchedSkills and missingSkills
\* that calculateJobMatch returns for the same resume and job.
C20_FallbackIsMatchScorer ==
    (pIn # Absent /\ pOut # Absent /\ JobMatchFailed) =>
        LET scorer == calculateJobMatch(pIn.resume, pIn.job)
        IN  /\ pOut[1].matchScore = scorer.matchScore
            /\ pOut[1].matchedSkills = scorer.matchedSkills
            /\ pOut[1].missingSkills = scorer.missingSkills

-----------------------------------------------------------------------------
(* Properties of the merge (specification SpecMerge) *)

\* the array stored for one field: the heuristic one when it is not empty,
\* else the one of the analysis
Preferred(heuristic, analysed) ==
    IF heuristic # <<>> THEN Present(heuristic) ELSE analysed

\* C13: the stored record takes, for skills, for experience and for education
\* separately, the heuristic array when it is not empty and the AI/fallback
\* array when it is empty.
C13_MergePerField ==
    (pIn # Absent /\ pOut # Absent) =>
        LET stored == pOut[1].analysis[1]
        IN  /\ stored.skills = Preferred(pIn.basicInfo.skills, pIn.aiAnalysis.skills)
            /\ stored.experience =
                  Preferred(pIn.basicInfo.experience, pIn.aiAnalysis.experience)
            /\ stored.education =
                  Preferred(pIn.basicInfo.education, pIn.aiAnalysis.education)

\* heuristic skills but no heuristic education: the stored skills are the
\* heuristic ones, the stored education is the one of the analysis
C13_Witness ==
    /\ pIn # Absent /\ pOut # Absent
    /\ pIn.basicInfo.skills = <<Str_python>>
    /\ pIn.basicInfo.education = <<>>
    /\ pIn.aiAnalysis.skills = Present(AiSkills)
    /\ pOut[1].analysis[1].skills = Present(<<Str_python>>)
    /\ pOut[1].analysis[1].education = Present(<<"Bachelor's Degree">>)

-----------------------------------------------------------------------------
(* Properties of generateImprovements (specification SpecImprovements) *)

\* C21: when the improvement-suggestion call fails or its response cannot be
\* parsed, generateImprovements returns the fixed, non-empty set of generic
\* suggestions, whatever the resume and the kind of failure.
C21_FixedSuggestionsOnFailure ==
    (pIn # Absent /\ pOut # Absent /\ JobMatchFailed) =>
        /\ pOut[1] = getFallbackImprovements(pIn.resume)
        /\ pOut[1].improvements # <<>>

-----------------------------------------------------------------------------
(* Further properties of the AI Analysis Client (specification SpecAI) *)

\* the call returned through the catch block of analyzeResume
ReturnedFallback ==
    /\ aCall # Absent
    /\ aCall[1].outcome.kind \in {"noKey", "error", "timeout", "noChoices"}

\* C22: the fallback analysis is a function of (text, fileName) alone: the
\* result of an invocation equals, in every field, the result of an
\* invocation with the same text and file name at any other time.
C22_FallbackPure ==
    ReturnedFallback =>
        \A now \in Clock :
            getFallbackResumeAnalysis(aText, AiFileName, now) = aCall[1].call.value

\* the first balanced "{...}" of the response: from the first "{" to the
\* first "}" that closes it; Absent when there is none
FirstBalanced(response) ==
    LET opens == {i \in 1..Len(response) : response[i] = "{"}
        first == CHOOSE i \in opens : \A j \in opens : i <= j
        Depth(j) == Cardinality({i \in first..j : response[i] = "{"})
                        - Cardinality({i \in first..j : response[i] = "}"})
        ends == {j \in first..Len(response) : Depth(j) = 0}
    IN  IF opens = {} THEN Absent
        ELSE IF ends = {} THEN Absent
        ELSE Present(SubSeq(response, first, CHOOSE j \in ends : \A k \in ends : j <= k))

\* C24: when the first balanced "{...}" of the response is valid JSON, the
\* result carries the members of that object, whatever text follows it; the
\* fallback is used only when there is no balanced substring or it is not
\* valid JSON.
C24_FirstBalancedParsed ==
    (aCall # Absent /\ aCall[1].outcome.kind = "response") =>
        LET balanced == FirstBalanced(aCall[1].outcome.text)
            result == aCall[1].call.value
        IN  (balanced # Absent /\ ~JsonParse(balanced[1]).threw) =>
                LET object == AnalysisOfObject(JsonParse(balanced[1]).value, 1)
                IN  /\ result.summary = object.summary
                    /\ result.skills = object.skills
                    /\ result.scores = object.scores

-----------------------------------------------------------------------------
(* Further properties of the relevance reasons (specification SpecReasons) *)

\* C23: the core technology stack reason is among the reasons exactly when
\* some matched skill is a member of the canonical set javascript, python,
\* react, node.js, java, sql (compared in lower case).
C23_CoreReasonByMembership ==
    (pIn # Absent /\ pOut # Absent) =>
        (ReasonCore \in Elems(pOut[1])
            <=> \E skill \in Elems(pIn.matchedSkills) :
                   ToLowerCase(skill) \in Elems(TechSkills))

-----------------------------------------------------------------------------
(* Further properties of the extractor (specification SpecExtractor) *)

\* C30: cleanText is idempotent: cleanText of its output is its output, for
\* every text over CR, LF, space, tab and a letter.
C30_CleanTextIdempotent ==
    Called("cleanText") => cleanText(pOut[1].value) = pOut[1].value

\* a text with a run of three spaces has been normalized, and normalizing the
\* output changes nothing
C30_Witness ==
    /\ Called("cleanText")
    /\ pIn.text = <<"a", " ", " ", " ", "a">>
    /\ pOut[1].value = <<"a", " ", "a">>
    /\ cleanText(pOut[1].value) = <<"a", " ", "a">>

-----------------------------------------------------------------------------
(* Further properties of the resume lifecycle (specification Spec) *)

\* C26: extractSkills, and so extractBasicInfo, returns for the text of
\* every stored resume (also one that holds the keyword c++), so no
\* background analysis records, and no resume carries, an error thrown by
\* the heuristic extraction.
C26_ExtractionNeverRaises ==
    /\ \A id \in DOMAIN resumes :
          ~extractSkills(ExtractedTextOf[resumes[id].originalName]).threw
    /\ \A task \in tasks :
          task.pc = "recordFailure" => ~BasicInfoOf[task.fileName].threw
    /\ \A id \in DOMAIN resumes :
          resumes[id].processingStatus = "failed" =>
              resumes[id].processingError #
                  Present("Invalid regular expression: Nothing to repeat")

-----------------------------------------------------------------------------
(* Properties of the applications (specifications SpecStatus and SpecApply) *)

\* C27: after any sequence of creation, updateStatus, withdraw and
\* scheduleInterview operations, the statusHistory of every application is
\* non-empty and the status of its last entry is the application's status.
C27_HistoryEndsWithStatus ==
    \A app \in applications :
        /\ app.statusHistory # <<>>
        /\ app.statusHistory[Len(app.statusHistory)] = app.status

\* the Application records of the job
ApplicationsOf(job) == {app \in applications : app.job = job}

\* C28: once no apply request is in flight, each job's applications counter
\* is the number of Application records of the job.
C28_CounterCountsRecords ==
    applyReqs = {} =>
        \A job \in DOMAIN jobs :
            jobs[job].applications = Cardinality(ApplicationsOf(job))

\* at most one application for each user and job, each for an active job and
\* a user whose latest resume is completed
AppliedOnce ==
    /\ \A a, b \in applications : (a.user = b.user /\ a.job = b.job) => a = b
    /\ \A a \in applications :
          /\ jobs[a.job].status = "active"
          /\ resumes[a.user].processingStatus = "completed"

\* a step that ends, as duplicate, a request of a user who has an
\* application for the job changes neither the applications nor the jobs
DuplicateLeavesNoTrace ==
    \A r \in applyReqs \ applyReqs' :
        (r.pc \in {"findExisting", "create"}
            /\ Existing(applications, r.user, r.job) # {})
        => (applications' = applications /\ jobs' = jobs)

\* C29: for every interleaving of apply requests there is at most one
\* Application for each (user, job), an application exists only for an active
\* job and a user whose latest resume is completed, and a request rejected
\* as duplicate creates no record and leaves the counters unchanged.
C29_NoDuplicateApplication == []AppliedOnce /\ [][DuplicateLeavesNoTrace]_vars

\* two requests of one user for one job have ended: one application, and
\* the job's counter is 1
C29_Witness ==
    /\ nOps = 2 /\ applyReqs = {}
    /\ \A job \in DOMAIN jobs : jobs[job].status = "active"
    /\ \A user \in DOMAIN resumes : resumes[user].processingStatus = "completed"
    /\ Cardinality(applications) = 1
    /\ \E app \in applications : jobs[app.job].applications = 1

====
